---- MODULE Spec2Model ----
(***************************************************************************)
(* A model of src/Ken/DJI/Objects.py: the rectangles, zones, bullets and   *)
(* robots of the challenge field.                                          *)
(*                                                                         *)
(* Lengths and coordinates are held on a grid of 1/200 field unit, so that *)
(* the tolerance 0.01 of Rectangle.contains is 2 grid units, a robot's     *)
(* width 50.0 is 10000 and a bullet's speed 25 is 5000.  Angles are held   *)
(* in degrees; angle_radian is held in units of pi/180 rad.  Rectangles of *)
(* the model are turned by multiples of 90 degrees, for which cos and sin  *)
(* are -1, 0 or 1.                                                         *)
(***************************************************************************)
EXTENDS Integers, Sequences, FiniteSets, TLC

VARIABLES
    shapes,      \* the Rectangle objects under test, by name
    robots,      \* the Robot objects, by name
    bulletObjs,  \* the Bullet objects, by name (NoBullet before construction)
    bullets,     \* env.characters['bullets']: the live bullet collection
    life,        \* the LoadingZone's instance attribute life: << >> while unset
    active,      \* the DefenseBuffZone's attribute active
    grants,      \* addDefenseBuff calls made by the zone since its last reset
    flight,      \* per bullet: where and with what delay it was fired, and
                 \* the act() calls it has taken while active
    buffed,      \* per robot: the time of its last addDefenseBuff and the
                 \* act() calls it has taken alive since
    sweep,       \* the environment's loop over the bullets: the list it
                 \* iterates, its place in it, and the act() calls it made
    call,        \* the last call made on an object, with its arguments
    ret,         \* what the last call returned
    err          \* the exception the last call raised ("" when none)

vars == <<shapes, robots, bulletObjs, bullets, life, active, grants,
          flight, buffed, sweep, call, ret, err>>

-----------------------------------------------------------------------------
(* Bounds of the model *)

\* CPython's limit on nested calls (sys.getrecursionlimit(), 1000 by default)
RecursionLimit == 1000

\* the field is FieldCols x FieldRows bullet steps wide and high
FieldCols == 8
FieldRows == 6

\* a robot's ammo is loaded up to MaxLoads times
MaxLoads == 5

\* a robot acts at most MaxActs times
MaxActs == 2

\* at most MaxBullets bullets are fired
MaxBullets == 2

-----------------------------------------------------------------------------
(* Program constants, on the 1/200 grid where they are lengths *)

error_threshold == 2
RobotWidth == 10000
RobotHeight == 6000
speed == 5000
damage == 20
InitialHealth == 100
LoadAmount == 100
LifeInit == 3
BuffTime == 30
TimerScale == 1000

None == [kind |-> "None"]
NoBullet == [kind |-> "NoBullet"]

\* a returned True or False
Bool(b) == [kind |-> "bool", value |-> b]

-----------------------------------------------------------------------------
(* utils.Point: pure 2D point/vector algebra *)

Point(x, y) == [x |-> x, y |-> y]

Abs(n) == IF n < 0 THEN -n ELSE n

Move(p, dx, dy) == Point(p.x + dx, p.y + dy)

\* the vector from other to self
Diff(p, other) == Point(p.x - other.x, p.y - other.y)

\* the points of the model have coordinates whose sums are even
Midpoint(p, other) == Point((p.x + other.x) \div 2, (p.y + other.y) \div 2)

Dot(p, other) == p.x * other.x + p.y * other.y

\* Euclidean norm, for the axis-parallel vectors a projection yields here
Length(p) == IF p.x = 0 THEN Abs(p.y) ELSE IF p.y = 0 THEN Abs(p.x) ELSE -1

\* (self . onto / onto . onto) * onto, for an axis-parallel, non-zero onto
Project(p, onto) ==
    IF onto.y = 0 THEN Point(p.x, 0) ELSE Point(0, p.y)

\* math.cos and math.sin of an angle held in degrees, a multiple of 90
Cos(deg) == CASE deg % 360 = 0 -> 1
              [] deg % 360 = 90 -> 0
              [] deg % 360 = 180 -> -1
              [] deg % 360 = 270 -> 0

Sin(deg) == CASE deg % 360 = 0 -> 0
              [] deg % 360 = 90 -> 1
              [] deg % 360 = 180 -> 0
              [] deg % 360 = 270 -> -1

-----------------------------------------------------------------------------
(* class Rectangle, class uprightRectangle *)

\* the frames setAngle(deg) nests: one per 360 added or subtracted, and one
SetAngleFrames(deg) ==
    IF deg < 0 THEN 1 + ((359 - deg) \div 360) ELSE 1 + (deg \div 360)

RECURSIVE NormalAngle(_)
NormalAngle(deg) ==
    IF deg < 0 THEN NormalAngle(deg + 360)
    ELSE IF deg >= 360 THEN NormalAngle(deg - 360)
    ELSE deg

\* Rectangle.setAngle raises RecursionError when it nests too deep
SetAngleRaises(deg) == SetAngleFrames(deg) > RecursionLimit

\* Rectangle.setAngle on the object rec, when it does not raise: the angle
\* and angle_radian are assigned, the vertices and the center are not.
SetAngle(rec, deg) ==
    [rec EXCEPT !.angle = NormalAngle(deg), !.angle_radian = NormalAngle(deg)]

\* Rectangle.getVertices and uprightRectangle.getVertices
GetVertices(rec) ==
    IF rec.kind = "uprightRectangle"
    THEN LET bottom_left == rec.bottom_left
             bottom_right == Move(bottom_left, rec.width, 0)
             top_right == Move(bottom_right, 0, rec.height)
             top_left == Move(bottom_left, 0, rec.height)
         IN  <<bottom_left, bottom_right, top_right, top_left>>
    ELSE LET width_dx == Cos(rec.angle_radian) * rec.width
             width_dy == Sin(rec.angle_radian) * rec.width
             height_dx == (-Sin(rec.angle_radian)) * rec.height
             height_dy == Cos(rec.angle_radian) * rec.height
             bottom_right == Move(rec.bottom_left, width_dx, width_dy)
             top_left == Move(rec.bottom_left, height_dx, height_dy)
             top_right == Move(bottom_right, height_dx, height_dy)
         IN  <<rec.bottom_left, bottom_right, top_right, top_left>>

\* vertices[2] of the code is the third vertex
GetCenter(rec) == Midpoint(rec.bottom_left, rec.vertices[3])

\* Rectangle.__init__ on the object self (of class kind), when setAngle does
\* not raise: every field of the rectangle is assigned, the others are kept.
RectInit(self, bottom_left, width, height, angle) ==
    LET a == [self EXCEPT !.bottom_left = bottom_left,
                          !.width = width,
                          !.height = height]
        b == SetAngle(a, angle)
        c == [b EXCEPT !.angle_radian = angle]
        d == [c EXCEPT !.vertices = GetVertices(c)]
    IN  [d EXCEPT !.center = GetCenter(d)]

\* an object of class kind before its __init__ has run
Blank(kind) ==
    [kind |-> kind, bottom_left |-> Point(0, 0), width |-> 0, height |-> 0,
     angle |-> 0, angle_radian |-> 0,
     vertices |-> <<Point(0, 0), Point(0, 0), Point(0, 0), Point(0, 0)>>,
     center |-> Point(0, 0)]

NewRect(kind, bottom_left, width, height, angle) ==
    RectInit(Blank(kind), bottom_left, width, height, angle)

RectangleContains(rec, point) ==
    LET goal_vec == Diff(point, rec.bottom_left)
        width_vec == Diff(rec.vertices[2], rec.bottom_left)
        height_vec == Diff(rec.vertices[4], rec.bottom_left)
        width_proj == Project(goal_vec, width_vec)
        height_proj == Project(goal_vec, height_vec)
    IN  /\ Length(width_proj) - rec.width < error_threshold
        /\ Length(height_proj) - rec.height < error_threshold
        /\ Dot(width_proj, width_vec) >= 0
        /\ Dot(height_proj, height_vec) >= 0

UprightContains(rec, point) ==
    LET bottom_left == rec.bottom_left
        top_right == rec.vertices[3]
    IN  /\ bottom_left.x <= point.x
        /\ bottom_left.y <= point.y
        /\ top_right.x >= point.x
        /\ top_right.y >= point.y

\* contains, dispatched on the object's class
Contains(rec, point) ==
    IF rec.kind = "uprightRectangle"
    THEN UprightContains(rec, point)
    ELSE RectangleContains(rec, point)

Intersects(rec, other) ==
    \/ \E i \in 1..4 : Contains(rec, other.vertices[i])
    \/ \E i \in 1..4 : Contains(other, rec.vertices[i])

Blocks(rec, point, vec) == Contains(rec, point)

-----------------------------------------------------------------------------
(* class Robot *)

GunLength == RobotWidth
GunWidth == RobotHeight \div 4

Max(a, b) == IF a >= b THEN a ELSE b

\* Robot.getGun: vertices[1] of the code is the second vertex
GetGun(robot) ==
    LET bottom_left ==
            Midpoint(Midpoint(Midpoint(robot.vertices[2], robot.bottom_left),
                              robot.center),
                     robot.center)
    IN  NewRect("Rectangle", bottom_left, GunLength, GunWidth, robot.angle)

\* Robot.__init__
NewRobot(team, bottom_left, angle) ==
    LET a == [kind |-> "Robot", bottom_left |-> Point(0, 0), width |-> 0,
              height |-> 0, angle |-> 0, angle_radian |-> 0,
              vertices |-> <<Point(0, 0), Point(0, 0), Point(0, 0), Point(0, 0)>>,
              center |-> Point(0, 0),
              health |-> InitialHealth, gun_angle |-> 0, team |-> team,
              defenseBuffTimer |-> 0, gun |-> None, gun_heat |-> 0,
              bullet |-> 0]
        b == RectInit(a, bottom_left, RobotWidth, RobotHeight, angle)
    IN  [b EXCEPT !.gun = GetGun(b)]

Alive(robot) == robot.health > 0

RobotLoad(robot, num) == [robot EXCEPT !.bullet = robot.bullet + num]

HasDefenseBuff(robot) == robot.defenseBuffTimer > 0

AddDefenseBuff(robot, time) ==
    [robot EXCEPT !.defenseBuffTimer = time * TimerScale]

\* amount / 2: the amounts of the model are even
Halve(amount) == amount \div 2

\* reduceHealth with the sign of the amount slipped
ReduceHealthAdding(robot, amount) ==
    IF Alive(robot)
    THEN LET amt == IF HasDefenseBuff(robot) THEN Halve(amount) ELSE amount
         IN  [robot EXCEPT !.health = Max(0, robot.health + amt)]
    ELSE robot

\* reduceHealth without the halving under the defense buff
ReduceHealthUnhalved(robot, amount) ==
    IF Alive(robot)
    THEN [robot EXCEPT !.health = Max(0, robot.health - amount)]
    ELSE robot

\* reduceHealth without the clamp at 0
ReduceHealthUnclamped(robot, amount) ==
    IF Alive(robot)
    THEN LET amt == IF HasDefenseBuff(robot) THEN Halve(amount) ELSE amount
         IN  [robot EXCEPT !.health = robot.health - amt]
    ELSE robot

ReduceHealth(robot, amount) ==
    IF Alive(robot)
    THEN LET amt == IF HasDefenseBuff(robot) THEN Halve(amount) ELSE amount
         IN  [robot EXCEPT !.health = Max(0, robot.health - amt)]
    ELSE robot

\* setPosition through Robot.__init__ in place of Rectangle.__init__
SetPositionAnew(robot, rec) == NewRobot(robot.team, rec.bottom_left, rec.angle)

SetPosition(robot, rec) ==
    LET a == RectInit(robot, rec.bottom_left, rec.width, rec.height, rec.angle)
    IN  [a EXCEPT !.gun = GetGun(a)]

-----------------------------------------------------------------------------
(* The collaborators of Objects.py: the environment, the teams, the actions *)

FieldWidth == FieldCols * speed
FieldHeight == FieldRows * speed

\* env.isLegal: the point lies in the field
IsLegal(point) ==
    /\ 0 <= point.x /\ point.x <= FieldWidth
    /\ 0 <= point.y /\ point.y <= FieldHeight

\* the Obstacle objects of the field
Obstacles ==
    <<NewRect("uprightRectangle", Point(4 * speed, 4 * speed), speed, speed, 0)>>

RobotOrder == <<"r1", "r2">>

\* env.unpenetrables(): the obstacles, then the robots' bodies
Unpenetrables(rbts) ==
    [i \in 1..Len(Obstacles) |-> Obstacles[i]] \o
    [i \in 1..Len(RobotOrder) |-> rbts[RobotOrder[i]]]

\* what unpenetrables()[i] is: 0 for an obstacle, else the robot's place
RobotAt(i) == IF i <= Len(Obstacles) THEN "" ELSE RobotOrder[i - Len(Obstacles)]

\* env.isObstructed(rec, robot): rec leaves the field, or overlaps an
\* impenetrable body other than robot itself
IsObstructed(rec, r, rbts) ==
    \/ \E i \in 1..4 : ~IsLegal(rec.vertices[i])
    \/ \E i \in 1..Len(Obstacles) : Intersects(rec, Obstacles[i])
    \/ \E o \in DOMAIN rbts : o # r /\ Intersects(rec, rbts[o])

\* an action's resolve(robot): the pose the action asks for, or None
Resolve(action, robot) ==
    CASE action.type = "Move" ->
            NewRect("Rectangle",
                    Move(robot.bottom_left, action.dx, action.dy),
                    robot.width, robot.height, robot.angle)
      [] action.type = "Rotate" ->
            NewRect("Rectangle", robot.bottom_left, robot.width, robot.height,
                    robot.angle + action.deg)
      [] OTHER -> None

\* Team.addDefenseBuff(time): every robot of the team is given the buff
TeamAddDefenseBuff(rbts, team, time) ==
    [r \in DOMAIN rbts |->
        IF rbts[r].team = team THEN AddDefenseBuff(rbts[r], time) ELSE rbts[r]]

-----------------------------------------------------------------------------
(* Robot.execute and Robot.act *)

\* execute without the obstruction query
ExecuteUnchecked(robot, r, action, rbts) ==
    LET result_rec == Resolve(action, robot)
    IN  IF result_rec.kind = "None"
        THEN robot
        ELSE SetPosition(robot, result_rec)

\* Robot.execute on robot r, the other robots being as in rbts
Execute(robot, r, action, rbts) ==
    LET result_rec == Resolve(action, robot)
    IN  IF result_rec.kind = "None" \/ IsObstructed(result_rec, r, rbts)
        THEN robot
        ELSE SetPosition(robot, result_rec)

\* the loop over the list, left at the first action that is not committed
RECURSIVE ExecuteAllStopping(_, _, _, _)
ExecuteAllStopping(robot, r, actions, rbts) ==
    IF actions = << >> THEN robot
    ELSE IF Execute(robot, r, Head(actions), rbts) = robot
    THEN robot
    ELSE ExecuteAllStopping(Execute(robot, r, Head(actions), rbts), r,
                            Tail(actions), rbts)

RECURSIVE ExecuteAll(_, _, _, _)
ExecuteAll(robot, r, actions, rbts) ==
    IF actions = << >> THEN robot
    ELSE ExecuteAll(Execute(robot, r, Head(actions), rbts), r, Tail(actions), rbts)

\* act that leaves the defense-buff timer as it is
ActTimeless(robot, r, decision, rbts) ==
    IF Alive(robot)
    THEN CASE decision.kind = "single" ->
                 Execute(robot, r, decision.actions[1], rbts)
           [] decision.kind = "list" /\ decision.actions # << >> ->
                 ExecuteAll(robot, r, decision.actions, rbts)
           [] OTHER -> robot
    ELSE robot

\* act without the test of alive()
ActUndead(robot, r, decision, rbts) ==
    LET a == [robot EXCEPT !.defenseBuffTimer = robot.defenseBuffTimer - 1]
    IN  CASE decision.kind = "single" ->
                Execute(a, r, decision.actions[1], rbts)
          [] decision.kind = "list" /\ decision.actions # << >> ->
                ExecuteAll(a, r, decision.actions, rbts)
          [] OTHER -> a

\* Robot.act on robot r; decision is what getStrategy().decide returns
\* ("NoStrategy" when getStrategy() returns None)
Act(robot, r, decision, rbts) ==
    IF Alive(robot)
    THEN LET a == [robot EXCEPT !.defenseBuffTimer = robot.defenseBuffTimer - 1]
         IN  CASE decision.kind = "single" ->
                     Execute(a, r, decision.actions[1], rbts)
               [] decision.kind = "list" /\ decision.actions # << >> ->
                     ExecuteAll(a, r, decision.actions, rbts)
               [] OTHER -> a
    ELSE robot

-----------------------------------------------------------------------------
(* class Bullet *)

\* Bullet.__init__; dir / 180 * math.pi is held in units of pi/180 rad
NewBullet(point, dir, team) ==
    [kind |-> "Bullet", delay |-> 0, speed |-> speed, travelled |-> 0,
     point |-> point, dir |-> dir, team |-> team, active |-> TRUE]

\* the places in unpenetrables() of the bodies that block move_point
Blocking(rbts, move_point, move_vec) ==
    {i \in 1..Len(Unpenetrables(rbts)) :
        Blocks(Unpenetrables(rbts)[i], move_point, move_vec)}

\* the first of them, in iteration order
FirstBlocking(rbts, move_point, move_vec) ==
    CHOOSE i \in Blocking(rbts, move_point, move_vec) :
        \A j \in Blocking(rbts, move_point, move_vec) : i <= j

MovePoint(bul) ==
    Move(bul.point, Cos(bul.dir) * bul.speed, Sin(bul.dir) * bul.speed)

\* destruct without the removal from the collection
DestructListKept(bs, b) == bs

\* Bullet.destruct, on the collection
DestructList(bs, b) == SelectSeq(bs, LAMBDA x : ~(x = b))

\* Bullet.destruct, on the bullet
DestructBullet(bul) == [bul EXCEPT !.active = FALSE]

\* the robots after the bullet's hit on unpenetrables()[i]
HitBody(rbts, i) ==
    IF RobotAt(i) # ""
    THEN [rbts EXCEPT ![RobotAt(i)] = ReduceHealth(rbts[RobotAt(i)], damage)]
    ELSE rbts

\* what a call of act leaves: the bullet, the collection and the robots
Outcome(bul, bs, rbts) == [bullet |-> bul, bullets |-> bs, robots |-> rbts]

\* act that spares a robot of the bullet's own team
FlySparesOwnTeam(bul, b, bs, rbts) ==
    LET move_point == MovePoint(bul)
        move_vec == Diff(move_point, bul.point)
        first == FirstBlocking(rbts, move_point, move_vec)
    IN  IF Blocking(rbts, move_point, move_vec) # {}
        THEN Outcome(DestructBullet(bul), DestructList(bs, b),
                     IF RobotAt(first) # "" /\ rbts[RobotAt(first)].team = bul.team
                     THEN rbts
                     ELSE HitBody(rbts, first))
        ELSE IF IsLegal(move_point)
        THEN Outcome([bul EXCEPT !.point = move_point], bs, rbts)
        ELSE Outcome(DestructBullet(bul), DestructList(bs, b), rbts)

\* act that checks the bounds before the blocking bodies
FlyBoundsFirst(bul, b, bs, rbts) ==
    LET move_point == MovePoint(bul)
        move_vec == Diff(move_point, bul.point)
    IN  IF ~IsLegal(move_point)
        THEN Outcome(DestructBullet(bul), DestructList(bs, b), rbts)
        ELSE IF Blocking(rbts, move_point, move_vec) # {}
        THEN Outcome(DestructBullet(bul), DestructList(bs, b),
                     HitBody(rbts, FirstBlocking(rbts, move_point, move_vec)))
        ELSE Outcome([bul EXCEPT !.point = move_point], bs, rbts)

\* Bullet.act from move_point on (lines 257-269), for the bullet bul named b,
\* the collection being bs and the robots rbts
Fly(bul, b, bs, rbts) ==
    LET move_point == MovePoint(bul)
        move_vec == Diff(move_point, bul.point)
    IN  IF Blocking(rbts, move_point, move_vec) # {}
        THEN Outcome(DestructBullet(bul), DestructList(bs, b),
                     HitBody(rbts, FirstBlocking(rbts, move_point, move_vec)))
        ELSE IF IsLegal(move_point)
        THEN Outcome([bul EXCEPT !.point = move_point], bs, rbts)
        ELSE Outcome(DestructBullet(bul), DestructList(bs, b), rbts)

\* act whose delay branch does not return: the bullet flies while it delays
ActBulletNoReturn(bul, b, bs, rbts) ==
    IF ~bul.active
    THEN Outcome(bul, bs, rbts)
    ELSE IF bul.delay > 0
    THEN Fly([bul EXCEPT !.delay = bul.delay - 1], b, bs, rbts)
    ELSE Fly(bul, b, bs, rbts)

\* Bullet.act
ActBullet(bul, b, bs, rbts) ==
    IF ~bul.active
    THEN Outcome(bul, bs, rbts)
    ELSE IF bul.delay > 0
    THEN Outcome([bul EXCEPT !.delay = bul.delay - 1], bs, rbts)
    ELSE Fly(bul, b, bs, rbts)

\* destruct that removes the bullet from the list in place
DestructIteratedInPlace(iter, b) == DestructList(iter, b)

\* Bullet.destruct, on the list object a loop is iterating: line 275 binds
\* env.characters['bullets'] to a new list and leaves the old one as it was
DestructIterated(iter, b) == iter

-----------------------------------------------------------------------------
(* The state after construction *)

RectIds == {"a", "b"}
RobotIds == {"r1", "r2"}
Teams == {"BLUE", "RED"}
BulletIds == 1..MaxBullets

Unraised == ""

Fired(point, delay) == [start |-> point, delay |-> delay, ticks |-> 0]

\* a robot is constructed with defenseBuffTimer = 0
Granted(time) == [time |-> time, acts |-> 0]

Swept(on, list, pos, snapshot, acted) ==
    [on |-> on, list |-> list, pos |-> pos, snapshot |-> snapshot,
     acted |-> acted]

InitShapes ==
    [id \in RectIds |->
        IF id = "a" THEN NewRect("Rectangle", Point(0, 0), 200, 200, 0)
        ELSE NewRect("uprightRectangle", Point(0, 0), 200, 200, 0)]

-----------------------------------------------------------------------------
(* Calls on the Rectangle objects *)

RectKinds == {"Rectangle", "uprightRectangle"}
RectAnchors == {Point(0, 0), Point(201, 0), Point(400, 200)}
RectWidths == {200, 400}
RectHeights == {200}
ConstructAngles == {0, 90, -90, 450, 360 * 2 * RecursionLimit}
SetAngleArgs == {-90, 0, 90, 180, 270, 360, 720,
                 360 * 2 * RecursionLimit, -360 * 2 * RecursionLimit}
QueryCoords == {-1, 0, 100, 199, 200, 201, 202, 400, 401, 403}
QueryPoints == {Point(x, y) : x \in QueryCoords, y \in {0, 100, 201, 202}}

\* shapes[id] = kind(bottom_left, width, height, angle)
Construct(id, kind, bottom_left, width, height, angle) ==
    /\ call' = [op |-> "__init__", obj |-> id,
                arg |-> <<kind, bottom_left, width, height, angle>>]
    /\ IF SetAngleRaises(angle)
       THEN /\ err' = "RecursionError"
            /\ UNCHANGED shapes
       ELSE /\ err' = Unraised
            /\ shapes' = [shapes EXCEPT
                            ![id] = NewRect(kind, bottom_left, width, height, angle)]
    /\ ret' = None
    /\ UNCHANGED <<robots, bulletObjs, bullets, life, active, grants>>
    /\ UNCHANGED <<flight, buffed, sweep>>

\* shapes[id].setAngle(deg)
ShapeSetAngle(id, deg) ==
    /\ call' = [op |-> "setAngle", obj |-> id, arg |-> deg]
    /\ IF SetAngleRaises(deg)
       THEN /\ err' = "RecursionError"
            /\ UNCHANGED shapes
       ELSE /\ err' = Unraised
            /\ shapes' = [shapes EXCEPT ![id] = SetAngle(shapes[id], deg)]
    /\ ret' = None
    /\ UNCHANGED <<robots, bulletObjs, bullets, life, active, grants>>
    /\ UNCHANGED <<flight, buffed, sweep>>

\* shapes[id].contains(point)
ShapeContains(id, point) ==
    /\ call' = [op |-> "contains", obj |-> id, arg |-> point]
    /\ ret' = Bool(Contains(shapes[id], point))
    /\ err' = Unraised
    /\ UNCHANGED <<shapes, robots, bulletObjs, bullets, life, active, grants>>
    /\ UNCHANGED <<flight, buffed, sweep>>

\* shapes[id].intersects(shapes[other])
ShapeIntersects(id, other) ==
    /\ call' = [op |-> "intersects", obj |-> id, arg |-> other]
    /\ ret' = Bool(Intersects(shapes[id], shapes[other]))
    /\ err' = Unraised
    /\ UNCHANGED <<shapes, robots, bulletObjs, bullets, life, active, grants>>
    /\ UNCHANGED <<flight, buffed, sweep>>

-----------------------------------------------------------------------------
(* Calls on the robots *)

MoveAction(dx, dy) == [type |-> "Move", dx |-> dx, dy |-> dy, deg |-> 0]
RotateAction(deg) == [type |-> "Rotate", dx |-> 0, dy |-> 0, deg |-> deg]
NullAction == [type |-> "Null", dx |-> 0, dy |-> 0, deg |-> 0]

Actions ==
    {MoveAction(speed, 0), MoveAction(-speed, 0), MoveAction(0, speed),
     RotateAction(90), NullAction}

Decisions ==
    {[kind |-> "NoStrategy", actions |-> << >>],
     [kind |-> "None", actions |-> << >>],
     [kind |-> "list", actions |-> << >>]}
    \cup {[kind |-> "single", actions |-> <<a>>] : a \in Actions}
    \cup {[kind |-> "list", actions |-> <<a, b>>] :
            a \in {MoveAction(speed, 0), NullAction},
            b \in {MoveAction(0, speed), RotateAction(90)}}

PoseArgs ==
    {NewRect("Rectangle", Point(2 * speed, speed), RobotWidth, RobotHeight, 90)}

RobotAngleArgs == {0, 450, -90}

DamageArgs == {0, 10, 20, 90, 200}

\* the times a robot is given the buff for, by a call of its own
BuffTimeArgs == {1}

\* the counter defenseBuffTimer is let run MaxActs below its last setting by
\* the zone, and from a setting by a call of its own to MaxActs below 0
MayAct(robot) ==
    IF ~Alive(robot) THEN TRUE
    ELSE IF robot.defenseBuffTimer > BuffTime * TimerScale - MaxActs THEN TRUE
    ELSE /\ robot.defenseBuffTimer > -MaxActs
         /\ ~(\A time \in BuffTimeArgs \cup {0} :
                 robot.defenseBuffTimer > time * TimerScale)

\* robots[r].act(), the strategy deciding decision; the call's argument is
\* what the strategy was asked and gave, None when it was not asked
RobotAct(r, decision) ==
    /\ MayAct(robots[r])
    /\ call' = [op |-> "act", obj |-> r,
                arg |-> IF Alive(robots[r]) THEN decision ELSE None]
    /\ robots' = [robots EXCEPT ![r] = Act(robots[r], r, decision, robots)]
    /\ buffed' = IF Alive(robots[r])
                 THEN [buffed EXCEPT ![r].acts = buffed[r].acts + 1]
                 ELSE buffed
    /\ ret' = None
    /\ err' = Unraised
    /\ UNCHANGED <<shapes, bulletObjs, bullets, life, active, grants>>
    /\ UNCHANGED <<flight, sweep>>

\* robots[r].execute(action)
RobotExecute(r, action) ==
    /\ call' = [op |-> "execute", obj |-> r, arg |-> action]
    /\ robots' = [robots EXCEPT ![r] = Execute(robots[r], r, action, robots)]
    /\ ret' = None
    /\ err' = Unraised
    /\ UNCHANGED <<shapes, bulletObjs, bullets, life, active, grants>>
    /\ UNCHANGED <<flight, buffed, sweep>>

\* robots[r].setPosition(rec)
RobotSetPosition(r, rec) ==
    /\ call' = [op |-> "setPosition", obj |-> r, arg |-> rec]
    /\ robots' = [robots EXCEPT ![r] = SetPosition(robots[r], rec)]
    /\ ret' = None
    /\ err' = Unraised
    /\ UNCHANGED <<shapes, bulletObjs, bullets, life, active, grants>>
    /\ UNCHANGED <<flight, buffed, sweep>>

\* robots[r].setAngle(deg)
RobotSetAngle(r, deg) ==
    /\ call' = [op |-> "setAngle", obj |-> r, arg |-> deg]
    /\ IF SetAngleRaises(deg)
       THEN /\ err' = "RecursionError"
            /\ UNCHANGED robots
       ELSE /\ err' = Unraised
            /\ robots' = [robots EXCEPT ![r] = SetAngle(robots[r], deg)]
    /\ ret' = None
    /\ UNCHANGED <<shapes, bulletObjs, bullets, life, active, grants>>
    /\ UNCHANGED <<flight, buffed, sweep>>

\* robots[r].addDefenseBuff(time)
RobotAddDefenseBuff(r, time) ==
    /\ call' = [op |-> "addDefenseBuff", obj |-> r, arg |-> time]
    /\ robots' = [robots EXCEPT ![r] = AddDefenseBuff(robots[r], time)]
    /\ buffed' = [buffed EXCEPT ![r] = Granted(time)]
    /\ ret' = None
    /\ err' = Unraised
    /\ UNCHANGED <<shapes, bulletObjs, bullets, life, active, grants>>
    /\ UNCHANGED <<flight, sweep>>

\* robots[r].reduceHealth(amount)
RobotReduceHealth(r, amount) ==
    /\ call' = [op |-> "reduceHealth", obj |-> r, arg |-> amount]
    /\ robots' = [robots EXCEPT ![r] = ReduceHealth(robots[r], amount)]
    /\ ret' = None
    /\ err' = Unraised
    /\ UNCHANGED <<shapes, bulletObjs, bullets, life, active, grants>>
    /\ UNCHANGED <<flight, buffed, sweep>>

-----------------------------------------------------------------------------
(* class LoadingZone, class DefenseBuffZone *)

LoadingZoneTeam == "BLUE"
BuffZoneTeam == "BLUE"

\* the class attribute life is the method life(self) of line 195, which
\* replaces the life = 3 of line 171: a zone without its own attribute
\* compares a method with 0, which raises TypeError
LifeIsMethod(l) == l = << >>

\* LoadingZone.permissble
Permissble(team) == LoadingZoneTeam = team

\* LoadingZone.aligned
Aligned(robot) == TRUE

\* zone.load(robots[r])
Load(r) ==
    /\ robots[r].bullet < MaxLoads * LoadAmount
    /\ call' = [op |-> "load", obj |-> "LoadingZone", arg |-> r]
    /\ ret' = None
    /\ IF LifeIsMethod(life)
       THEN /\ err' = "TypeError"
            /\ UNCHANGED <<robots, life>>
       ELSE /\ err' = Unraised
            /\ IF life[1] <= 0
               THEN UNCHANGED <<robots, life>>
               ELSE /\ robots' = IF Aligned(robots[r])
                                 THEN [robots EXCEPT
                                         ![r] = RobotLoad(robots[r], LoadAmount)]
                                 ELSE robots
                    /\ life' = <<life[1] - 1>>
    /\ UNCHANGED <<shapes, bulletObjs, bullets, active, grants>>
    /\ UNCHANGED <<flight, buffed, sweep>>

\* LoadingZone.reset
LoadingReset ==
    /\ call' = [op |-> "reset", obj |-> "LoadingZone", arg |-> None]
    /\ life' = <<LifeInit>>
    /\ ret' = None
    /\ err' = Unraised
    /\ UNCHANGED <<shapes, robots, bulletObjs, bullets, active, grants>>
    /\ UNCHANGED <<flight, buffed, sweep>>

\* the robots of the team have just been granted the buff
TeamGranted(bf, rbts, team, time) ==
    [r \in DOMAIN bf |-> IF rbts[r].team = team THEN Granted(time) ELSE bf[r]]

\* activate that leaves the zone active
ActivateUnlatched ==
    /\ call' = [op |-> "activate", obj |-> "DefenseBuffZone", arg |-> None]
    /\ IF active
       THEN /\ robots' = TeamAddDefenseBuff(robots, BuffZoneTeam, BuffTime)
            /\ buffed' = TeamGranted(buffed, robots, BuffZoneTeam, BuffTime)
            /\ grants' = grants + 1
            /\ UNCHANGED active
       ELSE UNCHANGED <<robots, buffed, grants, active>>
    /\ ret' = None
    /\ err' = Unraised
    /\ UNCHANGED <<shapes, bulletObjs, bullets, life>>
    /\ UNCHANGED <<flight, sweep>>

\* DefenseBuffZone.activate
Activate ==
    /\ call' = [op |-> "activate", obj |-> "DefenseBuffZone", arg |-> None]
    /\ IF active
       THEN /\ robots' = TeamAddDefenseBuff(robots, BuffZoneTeam, BuffTime)
            /\ buffed' = TeamGranted(buffed, robots, BuffZoneTeam, BuffTime)
            /\ grants' = grants + 1
            /\ active' = FALSE
       ELSE UNCHANGED <<robots, buffed, grants, active>>
    /\ ret' = None
    /\ err' = Unraised
    /\ UNCHANGED <<shapes, bulletObjs, bullets, life>>
    /\ UNCHANGED <<flight, sweep>>

\* DefenseBuffZone.reset
BuffReset ==
    /\ call' = [op |-> "reset", obj |-> "DefenseBuffZone", arg |-> None]
    /\ active' = TRUE
    /\ grants' = 0
    /\ ret' = None
    /\ err' = Unraised
    /\ UNCHANGED <<shapes, robots, bulletObjs, bullets, life>>
    /\ UNCHANGED <<flight, buffed, sweep>>

-----------------------------------------------------------------------------
(* Calls on the bullets *)

Shot(point, dir, team, delay) ==
    [point |-> point, dir |-> dir, team |-> team, delay |-> delay]

\* the firings of the model: towards r1, towards r1 from two steps away
\* and after a delay of one tick, towards the obstacle, towards the corner
\* the obstacle and r2 share, towards r2, and out of the field
Shots ==
    {Shot(Point(3 * speed, 3000), 180, "RED", 0),
     Shot(Point(speed, 3 * speed), 270, "RED", 1),
     Shot(Point(3 * speed, 23000), 0, "BLUE", 0),
     Shot(Point(5 * speed, 6 * speed), 270, "BLUE", 0),
     Shot(Point(6 * speed, 6 * speed), 270, "BLUE", 0),
     Shot(Point(7 * speed, 28000), 0, "RED", 0)}

\* a firing: bulletObjs[b] = Bullet(point, dir, team, env), given its
\* ignition delay and appended to env.characters['bullets']
Fire(b, point, dir, team, delay) ==
    /\ bulletObjs[b] = NoBullet
    /\ \A c \in BulletIds : c < b => bulletObjs[c] # NoBullet
    /\ call' = [op |-> "Bullet", obj |-> b, arg |-> <<point, dir, team, delay>>]
    /\ bulletObjs' = [bulletObjs EXCEPT
                        ![b] = [NewBullet(point, dir, team) EXCEPT !.delay = delay]]
    /\ bullets' = Append(bullets, b)
    /\ flight' = [flight EXCEPT ![b] = Fired(point, delay)]
    /\ ret' = None
    /\ err' = Unraised
    /\ UNCHANGED <<shapes, robots, life, active, grants>>
    /\ UNCHANGED <<buffed, sweep>>

\* bulletObjs[b].act(), called on its own or, while the environment's loop
\* runs, on the bullet the loop has reached
BulletAct(b) ==
    /\ bulletObjs[b] # NoBullet
    /\ sweep.on => /\ sweep.pos <= Len(sweep.list)
                   /\ sweep.list[sweep.pos] = b
    /\ call' = [op |-> "act", obj |-> b, arg |-> None]
    /\ ret' = None
    /\ err' = Unraised
    /\ LET bul == bulletObjs[b]
           out == ActBullet(bul, b, bullets, robots)
           destructed == bul.active /\ ~out.bullet.active
       IN  /\ bulletObjs' = [bulletObjs EXCEPT ![b] = out.bullet]
           /\ bullets' = out.bullets
           /\ robots' = out.robots
           /\ flight' = IF bul.active
                        THEN [flight EXCEPT ![b].ticks = flight[b].ticks + 1]
                        ELSE flight
           /\ sweep' = IF sweep.on
                       THEN Swept(TRUE,
                                  IF destructed
                                  THEN DestructIterated(sweep.list, b)
                                  ELSE sweep.list,
                                  sweep.pos + 1, sweep.snapshot,
                                  [sweep.acted EXCEPT ![b] = sweep.acted[b] + 1])
                       ELSE sweep
    /\ UNCHANGED <<shapes, life, active, grants, buffed>>

\* the environment starts its loop over env.characters['bullets']
SweepStart ==
    /\ ~sweep.on
    /\ call' = [op |-> "sweep", obj |-> "env", arg |-> None]
    /\ sweep' = Swept(TRUE, bullets, 1, bullets, [b \in BulletIds |-> 0])
    /\ ret' = None
    /\ err' = Unraised
    /\ UNCHANGED <<shapes, robots, bulletObjs, bullets, life, active, grants>>
    /\ UNCHANGED <<flight, buffed>>

\* the loop calls act() on the bullet it has reached
SweepStep(b) == sweep.on /\ BulletAct(b)

\* the loop has reached the end of the list it iterates
SweepEnd ==
    /\ sweep.on
    /\ sweep.pos > Len(sweep.list)
    /\ call' = [op |-> "swept", obj |-> "env", arg |-> None]
    /\ sweep' = [sweep EXCEPT !.on = FALSE]
    /\ ret' = None
    /\ err' = Unraised
    /\ UNCHANGED <<shapes, robots, bulletObjs, bullets, life, active, grants>>
    /\ UNCHANGED <<flight, buffed>>

-----------------------------------------------------------------------------
(* The state after construction, and the specifications *)

InitRobots ==
    [r \in RobotIds |->
        IF r = "r1" THEN NewRobot("BLUE", Point(0, 0), 0)
        ELSE NewRobot("RED", Point(5 * speed, 4 * speed), 0)]

Init ==
    /\ shapes = InitShapes
    /\ robots = InitRobots
    /\ bulletObjs = [b \in BulletIds |-> NoBullet]
    /\ bullets = << >>
    /\ life = << >>
    /\ active = TRUE
    /\ grants = 0
    /\ flight = [b \in BulletIds |-> Fired(Point(0, 0), 0)]
    /\ buffed = [r \in RobotIds |-> Granted(0)]
    /\ sweep = Swept(FALSE, << >>, 1, << >>, [b \in BulletIds |-> 0])
    /\ call = [op |-> "", obj |-> "", arg |-> None]
    /\ ret = None
    /\ err = Unraised

\* the rectangle a is constructed and turned
NextRect ==
    \/ \E kind \in RectKinds, p \in RectAnchors, w \in RectWidths,
          h \in RectHeights, angle \in ConstructAngles :
          Construct("a", kind, p, w, h, angle)
    \/ \E deg \in SetAngleArgs : ShapeSetAngle("a", deg)

SpecRect == Init /\ [][NextRect]_vars

\* rectangles of both classes at angle 0 are constructed and queried
NextContains ==
    \/ \E id \in RectIds, kind \in RectKinds, p \in RectAnchors,
          w \in RectWidths, h \in RectHeights :
          Construct(id, kind, p, w, h, 0)
    \/ \E id \in RectIds, point \in QueryPoints : ShapeContains(id, point)
    \/ \E id \in RectIds, other \in RectIds : ShapeIntersects(id, other)

SpecContains == Init /\ [][NextContains]_vars

\* the zones are used and reset
NextZone ==
    \/ \E r \in RobotIds : Load(r)
    \/ LoadingReset
    \/ Activate
    \/ BuffReset

SpecZone == Init /\ [][NextZone]_vars

\* the robots are damaged, with and without the defense buff
NextHealth ==
    \/ \E r \in RobotIds, amount \in DamageArgs : RobotReduceHealth(r, amount)
    \/ Activate
    \/ BuffReset
    \/ \E r \in RobotIds : RobotAct(r, [kind |-> "None", actions |-> << >>])

SpecHealth == Init /\ [][NextHealth]_vars

\* robot r1 acts and is moved on the field, r2 standing still
NextRobot ==
    \/ \E d \in Decisions : RobotAct("r1", d)
    \/ \E a \in Actions : RobotExecute("r1", a)
    \/ \E rec \in PoseArgs : RobotSetPosition("r1", rec)
    \/ \E deg \in RobotAngleArgs : RobotSetAngle("r1", deg)
    \/ RobotReduceHealth("r1", 200)

SpecRobot == Init /\ [][NextRobot]_vars

\* bullets are fired and fly, the robots standing still
NextBullet ==
    \/ \E b \in BulletIds, s \in Shots :
          Fire(b, s.point, s.dir, s.team, s.delay)
    \/ \E b \in BulletIds : BulletAct(b)
    \/ RobotReduceHealth("r1", 90)
    \/ Activate

SpecBullet == Init /\ [][NextBullet]_vars

NoDecision == [kind |-> "None", actions |-> << >>]

\* r1 is given the buff, acts tick after tick and is shot at
NextBuff ==
    \/ \E time \in BuffTimeArgs : RobotAddDefenseBuff("r1", time)
    \/ RobotAct("r1", NoDecision)
    \/ RobotReduceHealth("r1", damage)

\* r1 moves along the field's lower edge, loads, is granted the buff and
\* is shot at
NextWear ==
    \/ RobotAct("r1", NoDecision)
    \/ RobotAct("r1", [kind |-> "single", actions |-> <<MoveAction(speed, 0)>>])
    \/ \E a \in {MoveAction(speed, 0), NullAction} : RobotExecute("r1", a)
    \/ Load("r1")
    \/ LoadingReset
    \/ Activate
    \/ RobotReduceHealth("r1", 90)

SpecWear == Init /\ [][NextWear]_vars

\* the environment has every robot act once in every tick
SpecBuff == Init /\ [][NextBuff]_vars /\ WF_vars(RobotAct("r1", NoDecision))

\* firings along lanes of the field that no body touches, with and without
\* an ignition delay
FlightShots ==
    {Shot(Point(0, 7000), 0, "RED", 0),
     Shot(Point(0, 7000), 0, "BLUE", 2),
     Shot(Point(12000, 0), 90, "RED", 1)}

\* bullets are fired into the free lanes and fly until they leave the field
NextFlight ==
    \/ \E b \in BulletIds, s \in FlightShots :
          Fire(b, s.point, s.dir, s.team, s.delay)
    \/ \E b \in BulletIds : BulletAct(b)

SpecFlight == Init /\ [][NextFlight]_vars

\* firings for the sweeps: into r1 at the first tick, along a free lane
\* after a delay, and out of the field's top at the first tick
SweepShots ==
    {Shot(Point(3 * speed, 3000), 180, "RED", 0),
     Shot(Point(0, 7000), 0, "BLUE", 1),
     Shot(Point(3 * speed, FieldHeight), 90, "RED", 0)}

\* bullets are fired between the sweeps, and act in the sweeps only
NextSweep ==
    \/ \E b \in BulletIds, s \in SweepShots :
          ~sweep.on /\ Fire(b, s.point, s.dir, s.team, s.delay)
    \/ SweepStart
    \/ \E b \in BulletIds : SweepStep(b)
    \/ SweepEnd

SpecSweep == Init /\ [][NextSweep]_vars

\* r2 against the far edge of the field, and r2 side by side with r1
EdgePose ==
    NewRect("Rectangle", Point(FieldWidth - RobotWidth, 0),
            RobotWidth, RobotHeight, 0)
TouchPose ==
    NewRect("Rectangle", Point(RobotWidth, 0), RobotWidth, RobotHeight, 0)

\* firings one step from a body or from the edge: at the far edge of the
\* field (half a hundredth beyond it lies within the tolerance of a robot
\* standing there), at the corner the obstacle and r2 share, at the right
\* side of r1 by either team, and out of the field's top
HitShots ==
    {Shot(Point(FieldWidth + 1 - speed, 3000), 0, "RED", 0),
     Shot(Point(5 * speed, 6 * speed), 270, "BLUE", 0),
     Shot(Point(3 * speed, 3000), 180, "BLUE", 0),
     Shot(Point(3 * speed, 3000), 180, "RED", 0),
     Shot(Point(3 * speed, FieldHeight), 90, "RED", 0)}

\* bullets are fired at the bodies, r2 standing at one of three places
NextHit ==
    \/ \E b \in BulletIds, s \in HitShots :
          Fire(b, s.point, s.dir, s.team, s.delay)
    \/ \E b \in BulletIds : BulletAct(b)
    \/ \E rec \in {EdgePose, TouchPose} : RobotSetPosition("r2", rec)

SpecHit == Init /\ [][NextHit]_vars

-----------------------------------------------------------------------------
(* The claims *)

InList(bs, b) == \E i \in 1..Len(bs) : bs[i] = b

\* the life a LoadingZone is said to have: 3 until a reset or a load sets it
SaidLife(l) == IF LifeIsMethod(l) THEN LifeInit ELSE l[1]

\* C1: a freshly constructed LoadingZone has life 3; each load made while
\* life is above 0 adds exactly 100 to the robot's ammo and takes one from
\* life, without raising; a load at life 0 changes neither; reset() sets
\* life to 3.
C1_FreshZoneLoads ==
    [][/\ \A r \in RobotIds :
            Load(r) =>
               /\ err' = Unraised
               /\ IF SaidLife(life) > 0
                  THEN /\ robots'[r].bullet = robots[r].bullet + LoadAmount
                       /\ ~LifeIsMethod(life')
                       /\ SaidLife(life') = SaidLife(life) - 1
                  ELSE /\ robots'[r].bullet = robots[r].bullet
                       /\ SaidLife(life') = 0
       /\ LoadingReset => SaidLife(life') = LifeInit]_vars

\* a bullet's step that finds its next sample point in an impenetrable body
BlockedStep(b) ==
    /\ BulletAct(b)
    /\ bulletObjs[b].active
    /\ bulletObjs[b].delay = 0
    /\ Blocking(robots, MovePoint(bulletObjs[b]),
                Diff(MovePoint(bulletObjs[b]), bulletObjs[b].point)) # {}

\* the robot that is the first body blocking b's next point ("" when that
\* body is an obstacle)
BlockingRobot(b) ==
    RobotAt(FirstBlocking(robots, MovePoint(bulletObjs[b]),
                          Diff(MovePoint(bulletObjs[b]), bulletObjs[b].point)))

\* the damage a bullet is said to do to a robot
SaidDamage(robot) == IF HasDefenseBuff(robot) THEN damage \div 2 ELSE damage

\* C2, as claimed: after a blocked step the bullet is inactive and out of
\* the live collection, and a blocking robot's health is exactly 20 lower
\* (10 lower under the defense buff), whatever the robot's state.
C2_ExactDamage ==
    [][\A b \in BulletIds :
          BlockedStep(b) =>
             /\ ~bulletObjs'[b].active
             /\ ~InList(bullets', b)
             /\ BlockingRobot(b) # "" =>
                   robots'[BlockingRobot(b)].health =
                      robots[BlockingRobot(b)].health
                         - SaidDamage(robots[BlockingRobot(b)])]_vars

\* C2, amended: after a blocked step the bullet is inactive and out of the
\* live collection, and when the first blocking body is a robot its health
\* is 20 lower (10 lower under the defense buff) but never below 0:
\* max(0, health - 20), respectively max(0, health - 10).
C2_ClampedDamage ==
    [][\A b \in BulletIds :
          BlockedStep(b) =>
             /\ ~bulletObjs'[b].active
             /\ ~InList(bullets', b)
             /\ BlockingRobot(b) # "" =>
                   robots'[BlockingRobot(b)].health =
                      Max(0, robots[BlockingRobot(b)].health
                                - SaidDamage(robots[BlockingRobot(b)]))
             /\ \A r \in RobotIds :
                   r # BlockingRobot(b) => robots'[r] = robots[r]]_vars

\* C2's case: bullet 1 has just been stopped by r1, which held the defense
\* buff and lost 10 of its 100 health
C2_Witness ==
    /\ call.op = "act" /\ call.obj = 1
    /\ bulletObjs[1] # NoBullet
    /\ ~bulletObjs[1].active
    /\ Contains(robots["r1"], MovePoint(bulletObjs[1]))
    /\ HasDefenseBuff(robots["r1"])
    /\ robots["r1"].health = InitialHealth - damage \div 2

\* C3: a robot's health always lies in [0, 100], and a reduceHealth call
\* made at health 0 leaves it at 0.
C3_HealthInRange ==
    /\ [](\A r \in RobotIds :
            robots[r].health >= 0 /\ robots[r].health <= InitialHealth)
    /\ [][\A r \in RobotIds, amount \in DamageArgs :
            RobotReduceHealth(r, amount) /\ robots[r].health = 0
               => robots'[r].health = 0]_vars

\* C3's case: a reduceHealth of 200 has just taken r1 to health 0
C3_Witness ==
    /\ call.op = "reduceHealth" /\ call.obj = "r1" /\ call.arg = 200
    /\ robots["r1"].health = 0

\* C4: the zone grants the buff at most once between two resets: an
\* activate() of an active zone gives every robot of the team the timer
\* 30 * 1000 and leaves the zone inactive, an activate() of an inactive zone
\* changes nothing, and reset() makes the zone active again.
C4_OneGrantPerReset ==
    /\ [](grants <= 1)
    /\ [][Activate =>
            IF active
            THEN /\ \A r \in RobotIds :
                       robots[r].team = BuffZoneTeam =>
                          robots'[r].defenseBuffTimer = BuffTime * TimerScale
                 /\ ~active'
                 /\ grants' = grants + 1
            ELSE /\ robots' = robots
                 /\ ~active'
                 /\ grants' = grants]_vars
    /\ [][BuffReset => active' /\ grants' = 0]_vars

\* C4's case: an activate() has just found the zone spent and granted
\* nothing more
C4_Witness ==
    /\ call.op = "activate"
    /\ ~active
    /\ grants = 1
    /\ robots["r1"].defenseBuffTimer = BuffTime * TimerScale
    /\ robots["r2"].defenseBuffTimer = 0

\* C5: an inactive bullet is not in the live collection; act() on an
\* inactive bullet changes no bullet, not the collection and no robot; and
\* an inactive bullet never becomes active again.
C5_InactiveStaysOut ==
    /\ [](\A b \in BulletIds :
            (bulletObjs[b] # NoBullet /\ ~bulletObjs[b].active)
               => ~InList(bullets, b))
    /\ [][\A b \in BulletIds :
            (BulletAct(b) /\ ~bulletObjs[b].active)
               => UNCHANGED <<bulletObjs, bullets, robots>>]_vars
    /\ [][\A b \in BulletIds :
            (bulletObjs[b] # NoBullet /\ ~bulletObjs[b].active)
               => (bulletObjs'[b] # NoBullet /\ ~bulletObjs'[b].active)]_vars

\* C5's case: bullet 1 is inactive and has been told to act again, while
\* bullet 2 is still live
C5_Witness ==
    /\ call.op = "act" /\ call.obj = 1
    /\ bulletObjs[1] # NoBullet /\ ~bulletObjs[1].active
    /\ bulletObjs[2] # NoBullet /\ bulletObjs[2].active
    /\ bullets = <<2>>
    /\ robots["r1"].health = InitialHealth - damage

\* the fields of a robot that make its pose
Pose(robot) ==
    <<robot.bottom_left, robot.width, robot.height, robot.angle,
      robot.angle_radian, robot.vertices, robot.center>>

\* the action's candidate is None or obstructed
Rejected(r, action) ==
    \/ Resolve(action, robots[r]).kind = "None"
    \/ IsObstructed(Resolve(action, robots[r]), r, robots)

\* C6: an execute whose candidate is None or obstructed raises nothing and
\* leaves the robot's pose and gun as they were.
C6_RejectedMoveKeepsPose ==
    [][\A r \in RobotIds, a \in Actions :
          (RobotExecute(r, a) /\ Rejected(r, a))
             => /\ Pose(robots'[r]) = Pose(robots[r])
                /\ robots'[r].gun = robots[r].gun
                /\ err' = Unraised]_vars

\* C6's case: r1 has just executed a move on from a pose it had moved to,
\* and the move's candidate is obstructed
C6_Witness ==
    /\ call.op = "execute" /\ call.obj = "r1"
    /\ call.arg.type = "Move"
    /\ IsObstructed(Resolve(call.arg, robots["r1"]), "r1", robots)
    /\ robots["r1"].bottom_left # Point(0, 0)

\* C7: every robot's gun is the rectangle getGun derives from the robot's
\* current pose.
C7_GunFollowsPose ==
    \A r \in RobotIds :
        /\ robots[r].gun = GetGun(robots[r])
        /\ robots[r].gun.angle = robots[r].angle

\* what (anchor, width, height, angle) derive
DerivedVertices(rec) == GetVertices([rec EXCEPT !.angle_radian = rec.angle])

\* C8: a rectangle's angle lies in [0, 360), and its vertices and center are
\* those its anchor, width, height and current angle derive.
C8_VerticesFollowAngle ==
    \A id \in RectIds :
        /\ shapes[id].angle >= 0 /\ shapes[id].angle < 360
        /\ shapes[id].vertices = DerivedVertices(shapes[id])
        /\ shapes[id].center =
              Midpoint(shapes[id].bottom_left, DerivedVertices(shapes[id])[3])

\* C9: setAngle(x) ends without raising, with the angle in [0, 360) and
\* congruent to x modulo 360, and setAngle of a stored angle keeps it.
C9_SetAngleNormalizes ==
    [][\A id \in RectIds, deg \in SetAngleArgs :
          ShapeSetAngle(id, deg) =>
             /\ err' = Unraised
             /\ shapes'[id].angle >= 0 /\ shapes'[id].angle < 360
             /\ (shapes'[id].angle - deg) % 360 = 0
             /\ (deg = shapes[id].angle => shapes'[id].angle = shapes[id].angle)]_vars

\* the rectangle of the other class with the same anchor, width and height
AsUpright(rec) ==
    NewRect("uprightRectangle", rec.bottom_left, rec.width, rec.height, 0)
AsRectangle(rec) ==
    NewRect("Rectangle", rec.bottom_left, rec.width, rec.height, 0)

\* C10: at angle 0, contains and intersects return what they return for
\* the same geometry held in the other class.
C10_UprightEquivalent ==
    /\ call.op = "contains" =>
          /\ ret = Bool(Contains(AsUpright(shapes[call.obj]), call.arg))
          /\ ret = Bool(Contains(AsRectangle(shapes[call.obj]), call.arg))
    /\ call.op = "intersects" =>
          /\ ret = Bool(Intersects(AsUpright(shapes[call.obj]),
                                   AsUpright(shapes[call.arg])))
          /\ ret = Bool(Intersects(AsRectangle(shapes[call.obj]),
                                   AsRectangle(shapes[call.arg])))

\* the bullet's next sample point lies in no impenetrable body and in the
\* field
FreeAhead(b) ==
    /\ \A i \in 1..Len(Obstacles) :
          ~Contains(Obstacles[i], MovePoint(bulletObjs[b]))
    /\ \A r \in RobotIds : ~Contains(robots[r], MovePoint(bulletObjs[b]))
    /\ IsLegal(MovePoint(bulletObjs[b]))

\* the ticks of its flight that the bullet has spent moving
Moved(b) == Max(0, flight[b].ticks - flight[b].delay)

\* C11: a bullet that has met no body and no bound is active after k ticks,
\* its delay is max(0, d - k) and its position is the start point displaced
\* by max(0, k - d) * 25 along its direction; a tick taken while the delay
\* is above 0 only takes one from the delay, and a tick into free space
\* leaves the bullet active and in the collection.
C11_DelayedFlight ==
    /\ [](\A b \in BulletIds :
            (bulletObjs[b] # NoBullet /\ bulletObjs[b].active) =>
               /\ bulletObjs[b].delay = Max(0, flight[b].delay - flight[b].ticks)
               /\ bulletObjs[b].point =
                     Move(flight[b].start,
                          Cos(bulletObjs[b].dir) * Moved(b) * speed,
                          Sin(bulletObjs[b].dir) * Moved(b) * speed))
    /\ [][\A b \in BulletIds :
            (BulletAct(b) /\ bulletObjs[b].active) =>
               IF bulletObjs[b].delay > 0
               THEN /\ bulletObjs' = [bulletObjs EXCEPT
                                        ![b].delay = bulletObjs[b].delay - 1]
                    /\ UNCHANGED <<bullets, robots>>
               ELSE FreeAhead(b) =>
                       /\ bulletObjs'[b].active
                       /\ InList(bullets', b)
                       /\ flight'[b].ticks = flight[b].ticks + 1
                       /\ UNCHANGED robots]_vars

\* C11's case: bullet 1, fired from (0, 35) with a delay of 2, is active
\* after 4 ticks and two steps of 25 along, and bullet 2, fired without
\* delay, is two steps along after 2 ticks
C11_Witness ==
    /\ bulletObjs[1] # NoBullet /\ bulletObjs[1].active
    /\ flight[1] = [start |-> Point(0, 7000), delay |-> 2, ticks |-> 4]
    /\ bulletObjs[1].point = Point(2 * speed, 7000)
    /\ bulletObjs[2] # NoBullet /\ bulletObjs[2].active
    /\ flight[2] = [start |-> Point(0, 7000), delay |-> 0, ticks |-> 2]
    /\ bulletObjs[2].point = Point(2 * speed, 7000)

\* C12: a LoadingZone is permissible for its own team only, and a load by
\* a robot of another team changes neither that robot's ammo nor the
\* zone's life.
C12_OwnTeamOnly ==
    /\ [](\A r \in RobotIds :
            Permissble(robots[r].team) <=> robots[r].team = LoadingZoneTeam)
    /\ [][\A r \in RobotIds :
            (Load(r) /\ ~Permissble(robots[r].team)) =>
               /\ robots'[r].bullet = robots[r].bullet
               /\ life' = life]_vars

\* the body at place i of unpenetrables() contains the point
Holds(i, point) == Contains(Unpenetrables(robots)[i], point)

\* the first place, in iteration order, whose body contains the point
FirstBody(point) ==
    CHOOSE i \in 1..Len(Unpenetrables(robots)) :
        Holds(i, point) /\ \A j \in 1..(i - 1) : ~Holds(j, point)

\* C13: in an act with delay 0, when a body contains the next point the
\* bullet is deactivated and removed and the first such body alone takes
\* one reduceHealth(damage), if it is a robot, whether or not the point is
\* in the field; when no body does and the point is out of the field the
\* bullet is deactivated and removed and no robot changes; in both cases
\* the bullet's position stays.
C13_BlockBeforeBounds ==
    [][\A b \in BulletIds :
          (BulletAct(b) /\ bulletObjs[b].active /\ bulletObjs[b].delay = 0) =>
             LET p == MovePoint(bulletObjs[b])
                 stopped == /\ ~bulletObjs'[b].active
                            /\ ~InList(bullets', b)
                            /\ bulletObjs'[b].point = bulletObjs[b].point
             IN  IF \E i \in 1..Len(Unpenetrables(robots)) : Holds(i, p)
                 THEN /\ stopped
                      /\ \A r \in RobotIds :
                            robots'[r] = IF r = RobotAt(FirstBody(p))
                                         THEN ReduceHealth(robots[r], damage)
                                         ELSE robots[r]
                 ELSE IF ~IsLegal(p)
                 THEN stopped /\ robots' = robots
                 ELSE bulletObjs'[b].active]_vars

\* C13's case: bullet 1 has been stopped by r2, which stands at the far
\* edge, on a next point that is out of the field, and r2 alone took the
\* 20; bullet 2 has been stopped on the side r1 and r2 share, and r1
\* alone took the 20
C13_Witness ==
    /\ bulletObjs[1] # NoBullet /\ ~bulletObjs[1].active
    /\ ~IsLegal(MovePoint(bulletObjs[1]))
    /\ bulletObjs[2] # NoBullet /\ ~bulletObjs[2].active
    /\ call.op = "act" /\ call.obj = 2
    /\ Contains(robots["r1"], MovePoint(bulletObjs[2]))
    /\ Contains(robots["r2"], MovePoint(bulletObjs[2]))
    /\ robots["r1"].health = InitialHealth - damage
    /\ robots["r2"].health = InitialHealth - damage
    /\ bullets = << >>

\* C14: act() on a robot whose health is 0 does not ask the strategy and
\* changes nothing of the robot: not its pose, gun, ammo or defense-buff
\* timer; no other robot changes either.
C14_DeadRobotRests ==
    [][\A r \in RobotIds, d \in Decisions :
          (RobotAct(r, d) /\ robots[r].health = 0) =>
             /\ call'.arg = None
             /\ Pose(robots'[r]) = Pose(robots[r])
             /\ robots'[r].gun = robots[r].gun
             /\ robots'[r].bullet = robots[r].bullet
             /\ robots'[r].defenseBuffTimer = robots[r].defenseBuffTimer
             /\ robots' = robots]_vars

\* C14's case: r1 died at a pose it had moved to, after one act, and has
\* just been told to act again
C14_Witness ==
    /\ call.op = "act" /\ call.obj = "r1" /\ call.arg = None
    /\ robots["r1"].health = 0
    /\ robots["r1"].bottom_left = Point(speed, 0)
    /\ robots["r1"].defenseBuffTimer = -1

\* a placement: an anchor, a width, a height, an angle in [0, 360) and the
\* vertices and center they derive
Placement(x) ==
    <<x.bottom_left, x.width, x.height, x.angle, x.vertices, x.center>>

\* where robot r stands after one action taken at the placement cur: at
\* the action's candidate, or at cur when the candidate is None or
\* obstructed
Stepped(cur, r, action) ==
    LET candidate == Resolve(action, cur)
    IN  IF candidate.kind = "None" THEN cur
        ELSE IF IsObstructed(candidate, r, robots) THEN cur
        ELSE candidate

RECURSIVE SteppedAll(_, _, _)
SteppedAll(cur, r, actions) ==
    IF actions = << >> THEN cur
    ELSE SteppedAll(Stepped(cur, r, Head(actions)), r, Tail(actions))

\* C15: an act() of a living robot whose strategy gives a list takes the
\* actions in order, each from the placement the ones before left, a None
\* or obstructed candidate being passed over; a None decision, no strategy
\* or an empty list leaves the pose and the gun as they were.
C15_ListInOrder ==
    [][\A r \in RobotIds, d \in Decisions :
          (RobotAct(r, d) /\ Alive(robots[r])) =>
             CASE d.kind = "list" /\ d.actions # << >> ->
                     Placement(robots'[r]) =
                        Placement(SteppedAll(robots[r], r, d.actions))
               [] d.kind = "single" -> TRUE
               [] OTHER ->
                     /\ Pose(robots'[r]) = Pose(robots[r])
                     /\ robots'[r].gun = robots[r].gun]_vars

\* C15's case: r1's first act was given the list of an action that
\* resolves to None and a move up, and the move was committed
C15_Witness ==
    /\ call.op = "act" /\ call.obj = "r1"
    /\ call.arg = [kind |-> "list",
                   actions |-> <<NullAction, MoveAction(0, speed)>>]
    /\ robots["r1"].defenseBuffTimer = -1
    /\ robots["r1"].bottom_left = Point(2 * speed, 2 * speed)

\* the buff of robot r is said to be on: fewer than t * 1000 act() calls
\* since its last addDefenseBuff(t)
SaidBuffed(r) == buffed[r].acts < buffed[r].time * TimerScale

\* C16: after addDefenseBuff(t), t > 0, the robot has the buff exactly
\* while it has acted fewer than t * 1000 times alive since; reduceHealth
\* halves the amount exactly then; and a robot that acts tick after tick
\* comes again and again to be without the buff, dead, or newly granted.
C16_BuffExpires ==
    /\ [](\A r \in RobotIds :
            buffed[r].time > 0 => (HasDefenseBuff(robots[r]) <=> SaidBuffed(r)))
    /\ [][\A r \in RobotIds :
            (RobotReduceHealth(r, damage) /\ Alive(robots[r])) =>
               robots'[r].health =
                  Max(0, robots[r].health
                            - (IF SaidBuffed(r) THEN damage \div 2 ELSE damage))]_vars
    /\ []<>(\/ ~HasDefenseBuff(robots["r1"])
            \/ ~Alive(robots["r1"])
            \/ call.op = "addDefenseBuff")

\* C16's case: r1 was given the buff for t = 1, has acted 1001 times since
\* and has just taken a full 20 after having taken halved ones
C16_Witness ==
    /\ call.op = "reduceHealth"
    /\ buffed["r1"] = [time |-> 1, acts |-> TimerScale + 1]
    /\ robots["r1"].defenseBuffTimer = -1
    /\ robots["r1"].health = InitialHealth - damage \div 2 - damage

\* C17: in a sweep no bullet acts twice; when the sweep ends, every bullet
\* that was in the collection at its start has acted exactly once and no
\* other has acted; and the collection holds exactly the active bullets.
C17_SweepActsOnce ==
    /\ \A b \in BulletIds : sweep.acted[b] <= 1
    /\ call.op = "swept" =>
          \A b \in BulletIds :
             sweep.acted[b] = IF InList(sweep.snapshot, b) THEN 1 ELSE 0
    /\ ~sweep.on =>
          \A b \in BulletIds :
             InList(bullets, b) <=>
                (bulletObjs[b] # NoBullet /\ bulletObjs[b].active)

\* C17's case: a sweep over two bullets has ended in which the first
\* destructed itself, and the second has acted all the same
C17_Witness ==
    /\ call.op = "swept"
    /\ sweep.snapshot = <<1, 2>>
    /\ sweep.acted = <<1, 1>>
    /\ ~bulletObjs[1].active
    /\ bulletObjs[2].active
    /\ flight[2].ticks > 0
    /\ bullets = <<2>>

\* C18: an execute whose candidate is not None and not obstructed leaves
\* the robot with the candidate's anchor, width and height and its angle
\* brought into [0, 360), and with the health, ammo, defense-buff timer,
\* team, gun_angle and gun_heat it had; no other robot changes.
C18_MoveKeepsTheRest ==
    [][\A r \in RobotIds, a \in Actions :
          (RobotExecute(r, a) /\ ~Rejected(r, a)) =>
             LET candidate == Resolve(a, robots[r])
             IN  /\ robots'[r].bottom_left = candidate.bottom_left
                 /\ robots'[r].width = candidate.width
                 /\ robots'[r].height = candidate.height
                 /\ robots'[r].angle = candidate.angle % 360
                 /\ robots'[r].health = robots[r].health
                 /\ robots'[r].bullet = robots[r].bullet
                 /\ robots'[r].defenseBuffTimer = robots[r].defenseBuffTimer
                 /\ robots'[r].team = robots[r].team
                 /\ robots'[r].gun_angle = robots[r].gun_angle
                 /\ robots'[r].gun_heat = robots[r].gun_heat
                 /\ \A o \in RobotIds : o # r => robots'[o] = robots[o]]_vars

\* C18's case: r1, with 55 health, 200 rounds and a running buff, has just
\* been moved by an execute
C18_Witness ==
    /\ call.op = "execute" /\ call.obj = "r1" /\ call.arg.type = "Move"
    /\ robots["r1"].bottom_left = Point(speed, 0)
    /\ robots["r1"].health = 55
    /\ robots["r1"].bullet = 2 * LoadAmount
    /\ robots["r1"].defenseBuffTimer = BuffTime * TimerScale - 1

\* C19: no call raises a robot's health, which starts at 100, and a robot
\* that is not alive stays so.
C19_HealthNeverRises ==
    /\ [](\A r \in RobotIds : robots[r].health <= InitialHealth)
    /\ [][\A r \in RobotIds :
            /\ robots'[r].health <= robots[r].health
            /\ ~Alive(robots[r]) => ~Alive(robots'[r])]_vars

\* C19's case: r1 is dead, after a halved and a full hit, and has since
\* been loaded
C19_Witness ==
    /\ call.op = "load" /\ call.arg = "r1" /\ err = Unraised
    /\ robots["r1"].health = 0
    /\ robots["r1"].bullet = LoadAmount
    /\ buffed["r1"].time = BuffTime

\* C20: what an act() leaves is what it would have left had the bullet been
\* of any other team: the same bullet but for its team, the same collection
\* and the same robots; and a robot of the bullet's own team that is the
\* first body to block takes the reduceHealth(damage) an enemy would take.
C20_TeamBlind ==
    [][\A b \in BulletIds :
          BulletAct(b) =>
             /\ \A team \in Teams :
                   LET twin == ActBullet([bulletObjs[b] EXCEPT !.team = team],
                                         b, bullets, robots)
                   IN  /\ bulletObjs'[b] =
                             [twin.bullet EXCEPT !.team = bulletObjs[b].team]
                       /\ bullets' = twin.bullets
                       /\ robots' = twin.robots
             /\ \A r \in RobotIds :
                   ( /\ bulletObjs[b].active
                     /\ bulletObjs[b].delay = 0
                     /\ \E i \in 1..Len(Unpenetrables(robots)) :
                           Holds(i, MovePoint(bulletObjs[b]))
                     /\ RobotAt(FirstBody(MovePoint(bulletObjs[b]))) = r
                     /\ robots[r].team = bulletObjs[b].team )
                   => robots'[r] = ReduceHealth(robots[r], damage)]_vars

\* C20's case: a BLUE and a RED bullet fired from the same place have both
\* been stopped by r1, which is BLUE and took 20 from each
C20_Witness ==
    /\ call.op = "act"
    /\ bulletObjs[1] # NoBullet /\ bulletObjs[2] # NoBullet
    /\ ~bulletObjs[1].active /\ ~bulletObjs[2].active
    /\ bulletObjs[1].team = "BLUE" /\ bulletObjs[2].team = "RED"
    /\ bulletObjs[1].point = bulletObjs[2].point
    /\ Contains(robots["r1"], MovePoint(bulletObjs[1]))
    /\ robots["r1"].team = "BLUE"
    /\ robots["r1"].health = InitialHealth - 2 * damage
    /\ robots["r2"].health = InitialHealth

====
